---- MODULE Spec2Model ----
(***************************************************************************)
(* A model of kairos: the session ledger (internal/storage), the session   *)
(* lifecycle (internal/tracker and the clockin/clockout/edit/delete        *)
(* commands) and the archival subsystem (internal/archive).                *)
(*                                                                         *)
(* Time is counted in ticks.  A time.Time held in memory is the wall-clock *)
(* tick in the configured location; the ledger stores UTC ticks, TzOffset  *)
(* ticks behind the local wall clock.  A day has TicksPerDay ticks and a   *)
(* month DaysPerMonth days.                                                *)
(***************************************************************************)
EXTENDS Integers, Sequences, FiniteSets, TLC

VARIABLES
    sessions,   \* the rows of table work_sessions
    files,      \* the history directory: month -> <<>> or <<record>>
    clock,      \* the wall clock, as a UTC tick
    nextId,     \* the next identifier uuid.New() hands out
    last,       \* what the last command did and returned
    fg,         \* a command between two of its steps: <<>> or <<what it holds>>
    bg          \* the background archive task: <<>> or <<its position>>

vars == <<sessions, files, clock, nextId, last, fg, bg>>

---------------------------------------------------------------------------
(* Bounds of the model *)

TicksPerDay == 2
DaysPerMonth == 1
MaxMonth == 2
MaxSessions == 2
TzOffset == 1

(* Program constants *)

DefaultBreakMinutes == 30
FridayBreakMinutes == 0

\* WeeklyGoalHours = 38.5, in minutes
WeeklyGoalMinutes == 2310

---------------------------------------------------------------------------
(* The calendar: time.Time's Year/Month/Day/Weekday and time.Date *)

Months == 0..MaxMonth

TicksPerMonth == DaysPerMonth * TicksPerDay

MaxClock == (MaxMonth + 1) * TicksPerMonth - 1 - TzOffset

DayOf(t) == t \div TicksPerDay

TodOf(t) == t % TicksPerDay

DayStart(t) == DayOf(t) * TicksPerDay

DayEnd(t) == DayStart(t) + TicksPerDay - 1

MonthOf(t) == DayOf(t) \div DaysPerMonth

MonthStart(m) == m * TicksPerMonth

MonthEnd(m) == MonthStart(m + 1) - 1

\* time.Weekday: Sunday = 0 .. Saturday = 6; day 0 of the model is a Thursday
Weekday(t) == (DayOf(t) + 4) % 7

\* the minutes of a tick
MinutesPerTick == (24 * 60) \div TicksPerDay

ToUTC(t) == t - TzOffset

ToLocal(u) == u + TzOffset

Now == ToLocal(clock)

---------------------------------------------------------------------------
(* Inputs *)

NoTime == <<>>

\* a time-of-day string: a tick of the day parses, TicksPerDay does not ("25:00")
TimeStrs == {<<t>> : t \in 0..TicksPerDay}

Notes == {""}

BreakArgs == {15}

Ids == 1..MaxSessions

\* the first 8 characters of an identifier
IdPrefix(id) == (id + 1) \div 2

\* what a caller can pass as an identifier: a complete one or a short form
FullKey(id) == [kind |-> "full", v |-> id]

ShortKey(p) == [kind |-> "short", v |-> p]

Keys == {FullKey(id) : id \in Ids} \cup {ShortKey(IdPrefix(id)) : id \in Ids}

\* no identifier given
NoKey == [kind |-> "none", v |-> 0]

---------------------------------------------------------------------------
(* internal/work *)

GetBreakMinutesForDay(t) ==
    IF Weekday(t) = 5 THEN FridayBreakMinutes ELSE DefaultBreakMinutes

\* Friday - day + 1 on every day, the week-end included
RemainingWorkDaysEveryDay(t) == 5 - Weekday(t) + 1

\* the work days left in the week of t, the day of t included
RemainingWorkDaysInWeek(t) ==
    LET day == Weekday(t) IN
    IF day = 6 \/ day = 0 THEN 0 ELSE 5 - day + 1

---------------------------------------------------------------------------
(* internal/storage: the ledger.  A row holds UTC ticks; a WorkSession     *)
(* read from it holds local ticks.                                         *)

\* the row InsertSession / UpdateSession write for a WorkSession
RowOf(s) ==
    [id    |-> s.id,
     date  |-> DayOf(ToUTC(s.start)),
     start |-> ToUTC(s.start),
     end   |-> IF s.end = <<>> THEN <<>> ELSE <<ToUTC(s.end[1])>>,
     brk   |-> s.brk,
     note  |-> s.note]

\* a read that takes the date from the date column
populateSessionDateColumn(r) ==
    [id    |-> r.id,
     date  |-> r.date * TicksPerDay,
     start |-> ToLocal(r.start),
     end   |-> IF r.end = <<>> THEN <<>> ELSE <<ToLocal(r.end[1])>>,
     brk   |-> r.brk,
     note  |-> r.note]

\* the WorkSession read from row r
populateSessionTimes(r) ==
    [id    |-> r.id,
     date  |-> DayStart(ToLocal(r.start)),
     start |-> ToLocal(r.start),
     end   |-> IF r.end = <<>> THEN <<>> ELSE <<ToLocal(r.end[1])>>,
     brk   |-> r.brk,
     note  |-> r.note]

InsertSession(db, s) == db \cup {RowOf(s)}

\* UPDATE ... WHERE id = ?: no row, no change, no error
UpdateSession(db, s) ==
    {IF r.id = s.id THEN RowOf(s) ELSE r : r \in db}

\* SELECT ... WHERE id LIKE prefix%: the first row the engine yields
GetSessionByPrefix(db, p) ==
    {populateSessionTimes(r) : r \in {x \in db : IdPrefix(x.id) = p}}

\* the sessions GetSessionByID may return; none is sql.ErrNoRows
GetSessionByID(db, key) ==
    LET exact == {r \in db : key.kind = "full" /\ r.id = key.v}
    IN  IF exact # {}
        THEN {populateSessionTimes(r) : r \in exact}
        ELSE GetSessionByPrefix(db, IF key.kind = "full" THEN IdPrefix(key.v) ELSE key.v)

\* a lookup that sees only the sessions started today
GetActiveSessionToday(db) ==
    LET open == {r \in db : r.end = <<>> /\ DayOf(ToLocal(r.start)) = DayOf(Now)}
    IN  {populateSessionTimes(r) : r \in {x \in open : \A y \in open : y.start <= x.start}}

\* ... WHERE end_time IS NULL ORDER BY start_time DESC LIMIT 1
GetActiveSession(db) ==
    LET open == {r \in db : r.end = <<>>}
    IN  {populateSessionTimes(r) : r \in {x \in open : \A y \in open : y.start <= x.start}}

\* the bounds of the days left in the local zone
normalizeRangeLocal(start, end) ==
    <<DayStart(start), DayEnd(end)>>

normalizeRange(start, end) ==
    <<ToUTC(DayStart(start)), ToUTC(DayEnd(end))>>

InRange(r, start, end) ==
    LET rng == normalizeRange(start, end)
    IN  r.start <= rng[2] /\ (r.end = <<>> \/ r.end[1] >= rng[1])

GetSessionsInRange(db, start, end) ==
    {populateSessionTimes(r) : r \in {x \in db : InRange(x, start, end)}}

\* the rows in the order of ORDER BY start_time ASC: every order of the
\* result in which no row precedes one that starts earlier
GetSessionsInRangeRows(db, start, end) ==
    LET res == GetSessionsInRange(db, start, end)
        n   == Cardinality(res)
    IN  {q \in [1..n -> res] :
            /\ \A s \in res : \E i \in 1..n : q[i] = s
            /\ \A i, j \in 1..n : i < j => q[i].start <= q[j].start}

DeleteSession(db, key) ==
    {r \in db : ~(key.kind = "full" /\ r.id = key.v)}

DeleteSessionsInRange(db, start, end) ==
    {r \in db : ~InRange(r, start, end)}

\* MAX(start_time) in place of MIN(start_time)
GetNewestSessionDate(db) ==
    IF db = {} THEN <<>>
    ELSE <<ToLocal((CHOOSE r \in db : \A y \in db : r.start >= y.start).start)>>

\* MIN(start_time), in the local zone; <<>> when the table is empty
GetOldestSessionDate(db) ==
    IF db = {} THEN <<>>
    ELSE <<ToLocal((CHOOSE r \in db : \A y \in db : r.start <= y.start).start)>>

---------------------------------------------------------------------------
(* internal/tracker *)

\* <<t>> on success, <<>> for "invalid time format"
parseTimeOnDate(base, s) ==
    IF s[1] < TicksPerDay THEN <<DayStart(base) + s[1]>> ELSE <<>>

isValidTimeInput(s) == s[1] < TicksPerDay

\* a clock-in that puts every override on the day before
ClockInWithTimeDayBefore(now, id, note, timeStr) ==
    LET parsed == IF timeStr = NoTime THEN <<>> ELSE parseTimeOnDate(now, timeStr)
        start  == IF parsed = <<>> THEN now ELSE parsed[1] - TicksPerDay
    IN  [id |-> id, date |-> start, start |-> start, end |-> <<>>,
         brk |-> 0, note |-> note]

\* a clock-in that moves only the date back and leaves the start after now
ClockInWithTimeDateOnly(now, id, note, timeStr) ==
    LET parsed == IF timeStr = NoTime THEN <<>> ELSE parseTimeOnDate(now, timeStr)
        start  == IF parsed = <<>> THEN now ELSE parsed[1]
    IN  [id |-> id, date |-> IF start > now THEN now - TicksPerDay ELSE now,
         start |-> start, end |-> <<>>, brk |-> 0, note |-> note]

\* the WorkSession ClockInWithTime inserts; a parse error is dropped
ClockInWithTime(now, id, note, timeStr) ==
    LET parsed == IF timeStr = NoTime THEN <<>> ELSE parseTimeOnDate(now, timeStr)
        start  == IF parsed = <<>> THEN now
                  ELSE IF parsed[1] > now THEN parsed[1] - TicksPerDay
                  ELSE parsed[1]
    IN  [id |-> id, date |-> start, start |-> start, end |-> <<>>,
         brk |-> 0, note |-> note]

\* a clock-out that leaves an override earlier than the start on the start's day
ClockOutWithTimeNoRoll(now, s, breakMinutes, note, timeStr) ==
    LET parsed  == IF timeStr = NoTime THEN <<>> ELSE parseTimeOnDate(s.start, timeStr)
        endTime == IF parsed = <<>> THEN now ELSE parsed[1]
    IN  [s EXCEPT !.end = <<endTime>>, !.brk = breakMinutes,
                  !.note = IF note # "" THEN note ELSE @]

\* the WorkSession ClockOutWithTime writes back for the session s it read
ClockOutWithTime(now, s, breakMinutes, note, timeStr) ==
    LET parsed  == IF timeStr = NoTime THEN <<>> ELSE parseTimeOnDate(s.start, timeStr)
        endTime == IF parsed = <<>> THEN now
                   ELSE IF parsed[1] < s.start THEN parsed[1] + TicksPerDay
                   ELSE parsed[1]
    IN  [s EXCEPT !.end = <<endTime>>, !.brk = breakMinutes,
                  !.note = IF note # "" THEN note ELSE @]

\* an edit that writes break and note whether or not they were supplied
EditSessionWhole(s, breakMinutes, breakChanged, note, noteChanged, startTimeStr, endTimeStr) ==
    LET p3 == IF startTimeStr = NoTime THEN <<>> ELSE parseTimeOnDate(s.start, startTimeStr)
        s3 == IF p3 = <<>> THEN s ELSE [s EXCEPT !.start = p3[1], !.date = p3[1]]
    IN  [s3 EXCEPT !.brk = IF breakChanged THEN breakMinutes ELSE 0,
                   !.note = IF noteChanged THEN note ELSE ""]

\* the WorkSession EditSessionSelective writes back for the session s it read
EditSessionSelective(s, breakMinutes, breakChanged, note, noteChanged, startTimeStr, endTimeStr) ==
    LET s1 == IF breakChanged THEN [s EXCEPT !.brk = breakMinutes] ELSE s
        s2 == IF noteChanged THEN [s1 EXCEPT !.note = note] ELSE s1
        p3 == IF startTimeStr = NoTime THEN <<>> ELSE parseTimeOnDate(s2.start, startTimeStr)
        s3 == IF p3 = <<>> THEN s2 ELSE [s2 EXCEPT !.start = p3[1], !.date = p3[1]]
        p4 == IF endTimeStr = NoTime THEN <<>> ELSE parseTimeOnDate(s3.start, endTimeStr)
        e4 == IF p4 = <<>> THEN <<>>
              ELSE IF p4[1] < s3.start THEN <<p4[1] + TicksPerDay>> ELSE p4
    IN  IF e4 = <<>> THEN s3 ELSE [s3 EXCEPT !.end = e4]

\* EditSession: break and note are parameters, only the start time is optional
EditSession(s, breakMinutes, note, timeStr) ==
    EditSessionSelective(s, breakMinutes, TRUE, note, TRUE, timeStr, NoTime)

\* Sub(StartTime).Hours() - BreakMinutes/60 of a closed session, in minutes
Minutes(s) == (s.end[1] - s.start) * MinutesPerTick - s.brk

\* the sum of Minutes over a set of closed sessions
RECURSIVE SumMinutes(_)
SumMinutes(S) ==
    IF S = {} THEN 0
    ELSE LET s == CHOOSE x \in S : TRUE IN Minutes(s) + SumMinutes(S \ {s})

\* a DayProgress that adds the time an open session has been running
GetTodayProgressElapsed(db, now) ==
    LET sess == GetSessionsInRange(db, now, now)
        open == {s \in sess : s.end = <<>>}
    IN  [date    |-> now,
         total   |-> SumMinutes({s \in sess : s.end # <<>>})
                     + SumMinutes({[s EXCEPT !.end = <<now>>] : s \in open}),
         current |-> {s.id : s \in {x \in open : \A y \in open : y.start <= x.start}}]

\* the DayProgress of the day of now; current holds CurrentSessionID, the
\* open session the loop meets last, none is ""
GetTodayProgress(db, now) ==
    LET sess == GetSessionsInRange(db, now, now)
        open == {s \in sess : s.end = <<>>}
    IN  [date    |-> now,
         total   |-> SumMinutes({s \in sess : s.end # <<>>}),
         current |-> {s.id : s \in {x \in open : \A y \in open : y.start <= x.start}}]

\* Monday of the week of t, at the time of day of t
getWeekStart(t) ==
    LET weekday == IF Weekday(t) = 0 THEN 7 ELSE Weekday(t)
    IN  t - (weekday - 1) * TicksPerDay

\* the WeekProgress of the week that starts at weekStart; days is DaysWorked,
\* keyed by the day of Date
computeWeekProgress(db, weekStart) ==
    LET weekEnd == weekStart + 6 * TicksPerDay
        closed  == {s \in GetSessionsInRange(db, weekStart, weekEnd) : s.end # <<>>}
        keys    == {DayOf(s.date) : s \in closed}
        total   == SumMinutes(closed)
    IN  [weekStart |-> weekStart,
         weekEnd   |-> weekEnd,
         total     |-> total,
         days      |-> [d \in keys |-> SumMinutes({s \in closed : DayOf(s.date) = d})],
         count     |-> Cardinality(keys),
         remaining |-> WeeklyGoalMinutes - total]

GetWeeklyProgress(db, now) == computeWeekProgress(db, getWeekStart(now))

GetLastWeekProgress(db, now) ==
    computeWeekProgress(db, getWeekStart(now) - 7 * TicksPerDay)

GetWeekProgressForDate(db, date) == computeWeekProgress(db, getWeekStart(date))

---------------------------------------------------------------------------
(* internal/archive.  The month boundaries are taken in time.Local, which  *)
(* is the configured location here.                                        *)

\* one line of the session table of a record
SessionRecord(s) ==
    [date  |-> DayOf(s.date),
     start |-> TodOf(s.start),
     end   |-> TodOf(s.end[1]),
     ticks |-> s.end[1] - s.start,
     brk   |-> s.brk,
     note  |-> s.note]

\* the record of a month: the table lists the closed sessions only
buildSummary(m, sess, now) ==
    [month |-> m,
     rows  |-> {SessionRecord(s) : s \in {x \in sess : x.end # <<>>}},
     whole |-> TRUE]

\* what a failed os.WriteFile can leave behind: a truncated file
Truncated(m, now) ==
    [month |-> m, rows |-> {}, whole |-> FALSE]

\* a clean that deletes nothing
cleanNothing(db, m) == db

cleanMonth(db, m) == DeleteSessionsInRange(db, MonthStart(m), MonthEnd(m))

\* an archive that cleans the ledger before it writes the record
ArchiveMonthCleanFirst(db, fs, now, m, cleanDB, io) ==
    LET sess == GetSessionsInRange(db, MonthStart(m), MonthEnd(m))
        left == IF cleanDB THEN DeleteSessionsInRange(db, MonthStart(m), MonthEnd(m)) ELSE db
    IN  IF sess = {} THEN [db |-> db, fs |-> fs, err |-> "EmptyMonth"]
        ELSE IF io \in {"mkdir", "write"} THEN [db |-> left, fs |-> fs, err |-> "StorageFailure"]
        ELSE IF io = "partial"
        THEN [db |-> left, fs |-> [fs EXCEPT ![m] = <<Truncated(m, now)>>], err |-> "StorageFailure"]
        ELSE [db  |-> left,
              fs  |-> [fs EXCEPT ![m] = <<buildSummary(m, sess, now)>>],
              err |-> ""]

\* io is what the file system does: "ok", "mkdir" (os.MkdirAll fails),
\* "write" (os.WriteFile fails and leaves nothing new), "partial" (os.WriteFile
\* fails after it has truncated or created the file)
ArchiveMonth(db, fs, now, m, cleanDB, io) ==
    LET sess == GetSessionsInRange(db, MonthStart(m), MonthEnd(m)) IN
    IF sess = {} THEN [db |-> db, fs |-> fs, err |-> "EmptyMonth"]
    ELSE IF io = "mkdir" THEN [db |-> db, fs |-> fs, err |-> "StorageFailure"]
    ELSE IF io = "write" THEN [db |-> db, fs |-> fs, err |-> "StorageFailure"]
    ELSE IF io = "partial"
    THEN [db |-> db, fs |-> [fs EXCEPT ![m] = <<Truncated(m, now)>>], err |-> "StorageFailure"]
    ELSE [db  |-> IF cleanDB THEN cleanMonth(db, m) ELSE db,
          fs  |-> [fs EXCEPT ![m] = <<buildSummary(m, sess, now)>>],
          err |-> ""]

\* a walk that stops at an empty month as it does at a failed write
RECURSIVE ArchiveWalkNoSkip(_, _, _, _, _, _, _)
ArchiveWalkNoSkip(db, fs, now, m, currentMonth, archived, io) ==
    IF ~(m < currentMonth)
    THEN [db |-> db, fs |-> fs, archived |-> archived, err |-> ""]
    ELSE IF fs[m] # <<>>
    THEN ArchiveWalkNoSkip(db, fs, now, m + 1, currentMonth, archived, io)
    ELSE LET r == ArchiveMonth(db, fs, now, m, TRUE, io[m]) IN
         IF r.err = ""
         THEN ArchiveWalkNoSkip(r.db, r.fs, now, m + 1, currentMonth, Append(archived, m), io)
         ELSE [db |-> r.db, fs |-> r.fs, archived |-> archived, err |-> r.err]

\* the loop of AutoArchivePastMonths from month m on; io[k] is what the file
\* system does for month k
RECURSIVE ArchiveWalk(_, _, _, _, _, _, _)
ArchiveWalk(db, fs, now, m, currentMonth, archived, io) ==
    IF ~(m < currentMonth)
    THEN [db |-> db, fs |-> fs, archived |-> archived, err |-> ""]
    ELSE IF fs[m] # <<>>
    THEN ArchiveWalk(db, fs, now, m + 1, currentMonth, archived, io)
    ELSE LET r == ArchiveMonth(db, fs, now, m, TRUE, io[m]) IN
         IF r.err = ""
         THEN ArchiveWalk(r.db, r.fs, now, m + 1, currentMonth, Append(archived, m), io)
         ELSE IF r.err = "EmptyMonth"
         THEN ArchiveWalk(db, fs, now, m + 1, currentMonth, archived, io)
         ELSE [db |-> r.db, fs |-> r.fs, archived |-> archived, err |-> r.err]

\* a walk that goes on through the month of now
AutoArchiveThroughNow(db, fs, now, io) ==
    LET oldestDate == GetOldestSessionDate(db) IN
    IF oldestDate = <<>>
    THEN [db |-> db, fs |-> fs, archived |-> <<>>, err |-> ""]
    ELSE ArchiveWalk(db, fs, now, MonthOf(oldestDate[1]), MonthOf(now) + 1, <<>>, io)

AutoArchivePastMonths(db, fs, now, io) ==
    LET oldestDate == GetOldestSessionDate(db) IN
    IF oldestDate = <<>>
    THEN [db |-> db, fs |-> fs, archived |-> <<>>, err |-> ""]
    ELSE ArchiveWalk(db, fs, now, MonthOf(oldestDate[1]), MonthOf(now), <<>>, io)

---------------------------------------------------------------------------
(* What a command reports *)

Result(op, err) == [op |-> op, err |-> err, archived |-> <<>>, view |-> <<>>]

AutoResult(err, archived) ==
    [op |-> "auto", err |-> err, archived |-> archived, view |-> <<>>]

\* what a command that only reads prints
ViewResult(op, v) == [op |-> op, err |-> "", archived |-> <<>>, view |-> <<v>>]

ActiveRows(db) == {r \in db : r.end = <<>>}

---------------------------------------------------------------------------
(* The commands: clockin, clockout, edit, delete *)

\* clockin once it has found the active session a: line is the answer to
\* "Forgot to clock out? Enter clockout time (HH:MM)"
CloseActiveThenClockIn(a, note, timeStr, line) ==
    IF line = NoTime
    THEN /\ last' = Result("clockin", "AlreadyActive")
         /\ UNCHANGED <<sessions, files, clock, nextId>>
    ELSE IF ~isValidTimeInput(line)
    THEN /\ last' = Result("clockin", "InvalidTimeFormat")
         /\ UNCHANGED <<sessions, files, clock, nextId>>
    ELSE LET found == GetSessionByID(sessions, FullKey(a.id)) IN
         IF found = {}
         THEN /\ last' = Result("clockin", "NotFound")
              /\ UNCHANGED <<sessions, files, clock, nextId>>
         ELSE \E s \in found :
              LET closed == UpdateSession(sessions,
                                ClockOutWithTime(Now, s, GetBreakMinutesForDay(a.start), "", line))
              IN  /\ nextId <= MaxSessions
                  /\ sessions' = InsertSession(closed, ClockInWithTime(Now, nextId, note, timeStr))
                  /\ nextId' = nextId + 1
                  /\ last' = Result("clockin_forced", "")
                  /\ UNCHANGED <<files, clock>>

\* a clock-in that never looks for an active session
ClockInUnguarded(notes) ==
    \E note \in notes, timeStr \in {NoTime} \cup TimeStrs :
        /\ nextId <= MaxSessions
        /\ sessions' = InsertSession(sessions, ClockInWithTime(Now, nextId, note, timeStr))
        /\ nextId' = nextId + 1
        /\ last' = Result("clockin", "")
        /\ UNCHANGED <<files, clock>>

\* clockin [note] [-t time], the override drawn from times
ClockInAt(notes, times) ==
    \E note \in notes, timeStr \in times, line \in {NoTime} \cup TimeStrs :
        LET active == GetActiveSession(sessions) IN
        IF active = {}
        THEN /\ nextId <= MaxSessions
             /\ line = NoTime
             /\ sessions' = InsertSession(sessions, ClockInWithTime(Now, nextId, note, timeStr))
             /\ nextId' = nextId + 1
             /\ last' = Result("clockin", "")
             /\ UNCHANGED <<files, clock>>
        ELSE \E a \in active : CloseActiveThenClockIn(a, note, timeStr, line)

ClockIn(notes) == ClockInAt(notes, {NoTime} \cup TimeStrs)

\* clockout [break-minutes] [-t time], the override drawn from times
ClockOutAt(brks, times) ==
    \E brk \in brks, timeStr \in times :
        LET active == GetActiveSession(sessions) IN
        IF active = {}
        THEN /\ last' = Result("clockout", "NoActive")
             /\ UNCHANGED <<sessions, files, clock, nextId>>
        ELSE \E a \in active :
             \E s \in GetSessionByID(sessions, FullKey(a.id)) :
                 LET breakMinutes == IF brk >= 0 THEN brk ELSE GetBreakMinutesForDay(a.start)
                 IN  /\ sessions' = UpdateSession(sessions,
                                        ClockOutWithTime(Now, s, breakMinutes, "", timeStr))
                     /\ last' = Result("clockout", "")
                     /\ UNCHANGED <<files, clock, nextId>>

ClockOut(brks) == ClockOutAt(brks, {NoTime} \cup TimeStrs)

\* GetTodayProgress().CurrentSessionID as a key: the open session among
\* today's sessions that starts last; none is ""
CurrentSessionID(db, now) ==
    LET open == {s \in GetSessionsInRange(db, now, now) : s.end = <<>>}
    IN  {FullKey(s.id) : s \in {x \in open : \A y \in open : y.start <= x.start}}

\* edit [id]: without an id it edits the current session
EditAt(notes, brks, times, endTimes) ==
    \E arg \in Keys \cup {NoKey}, brk \in brks, note \in notes,
       timeStr \in times, endTimeStr \in endTimes :
        LET ids == IF arg = NoKey THEN CurrentSessionID(sessions, Now) ELSE {arg} IN
        IF ids = {}
        THEN /\ last' = Result("edit", "NoActive")
             /\ UNCHANGED <<sessions, files, clock, nextId>>
        ELSE \E key \in ids :
             LET found == GetSessionByID(sessions, key) IN
             IF found = {}
             THEN /\ last' = Result("edit", "NotFound")
                  /\ UNCHANGED <<sessions, files, clock, nextId>>
             ELSE \E s \in found :
                  /\ sessions' = UpdateSession(sessions,
                                     EditSessionSelective(s, brk, brk >= 0, note, note # "-",
                                                          timeStr, endTimeStr))
                  /\ last' = Result("edit", "")
                  /\ UNCHANGED <<files, clock, nextId>>

Edit(notes, brks) == EditAt(notes, brks, {NoTime} \cup TimeStrs, {NoTime} \cup TimeStrs)

\* delete <id> [--force]: without --force it only asks for it
DeleteCmd ==
    \E key \in Keys, force \in BOOLEAN :
        /\ sessions' = IF force THEN DeleteSession(sessions, key) ELSE sessions
        /\ last' = Result("delete", "")
        /\ UNCHANGED <<files, clock, nextId, fg, bg>>

\* archive month <YYYY-MM> [--clean]
ArchiveMonthRun(ios) ==
    \E m \in Months, clean \in BOOLEAN, io \in ios :
        LET r == ArchiveMonth(sessions, files, Now, m, clean, io) IN
        /\ sessions' = r.db
        /\ files' = r.fs
        /\ last' = Result(IF clean THEN "archive_clean" ELSE "archive", r.err)
        /\ UNCHANGED <<clock, nextId, fg, bg>>

\* archive auto
\* the walk stops at its first failed write: the file system works up to
\* month k and does f from there on
IOFrom(k, f) == [m \in Months |-> IF m < k THEN "ok" ELSE f]

ArchiveAutoRun(ios) ==
    \E k \in Months, f \in ios :
        LET r == AutoArchivePastMonths(sessions, files, Now, IOFrom(k, f)) IN
        /\ sessions' = r.db
        /\ files' = r.fs
        /\ last' = AutoResult(r.err, r.archived)
        /\ UNCHANGED <<clock, nextId, fg, bg>>

\* the days a date argument can name: the days of the model and the Monday
\* after them
ViewDays == 0..((MaxMonth + 2) * DaysPerMonth)

\* status
StatusCmd ==
    /\ last' = ViewResult("status", GetTodayProgress(sessions, Now))
    /\ UNCHANGED <<sessions, files, clock, nextId, fg, bg>>

\* week [last|date]: no argument, "last", or a date
WeekArgs == {<<"", 0>>, <<"last", 0>>} \cup {<<"date", d>> : d \in ViewDays}

WeekCmd ==
    \E arg \in WeekArgs :
        /\ last' = ViewResult("week",
                        IF arg[1] = "" THEN GetWeeklyProgress(sessions, Now)
                        ELSE IF arg[1] = "last" THEN GetLastWeekProgress(sessions, Now)
                        ELSE GetWeekProgressForDate(sessions, arg[2] * TicksPerDay))
        /\ UNCHANGED <<sessions, files, clock, nextId, fg, bg>>

\* the commands with every input of the model
ClockInCmd == ClockIn(Notes) /\ UNCHANGED <<fg, bg>>

ClockOutCmd == ClockOut(BreakArgs \cup {0 - 1}) /\ UNCHANGED <<fg, bg>>

EditCmd == Edit(Notes \cup {"-"}, BreakArgs \cup {0 - 1}) /\ UNCHANGED <<fg, bg>>

\* clockout with no --break: the break of the session's start day
ClockOutPlain == ClockOut({0 - 1}) /\ UNCHANGED <<fg, bg>>

\* what the file system may do to a write
IO == {"ok", "mkdir", "write", "partial"}

\* the archive commands on a file system that works
ArchiveMonthCmd == ArchiveMonthRun({"ok"})

ArchiveAutoCmd == ArchiveAutoRun({"ok"})

\* the archive commands on a file system that may fail
ArchiveMonthAnyIO == ArchiveMonthRun(IO)

ArchiveAutoAnyIO == ArchiveAutoRun(IO)

---------------------------------------------------------------------------
(* The commands step by step.  fg holds what a command has read so far.    *)

At(pc) == fg # <<>> /\ fg[1].pc = pc

\* clockin up to its prompt: it has found the active session and waits for
\* the answer on standard input
ClockInAsk ==
    /\ fg = <<>>
    /\ \E a \in GetActiveSession(sessions) : fg' = <<[pc |-> "prompt", s |-> a]>>
    /\ UNCHANGED <<sessions, files, clock, nextId, last, bg>>

\* clockin from the answer to its prompt on
ClockInAnswer ==
    /\ At("prompt")
    /\ \E note \in Notes, line \in {NoTime} \cup TimeStrs :
           CloseActiveThenClockIn(fg[1].s, note, NoTime, line)
    /\ fg' = <<>>
    /\ UNCHANGED bg

\* clockout, first step: clockoutCmd looks for the active session
ClockOutFind ==
    /\ At("cmd")
    /\ LET active == GetActiveSession(sessions) IN
       IF active = {}
       THEN /\ last' = Result("clockout", "NoActive")
            /\ fg' = <<[pc |-> "exit", s |-> <<>>]>>
       ELSE /\ \E a \in active : fg' = <<[pc |-> "found", s |-> a]>>
            /\ UNCHANGED last
    /\ UNCHANGED <<sessions, files, clock, nextId, bg>>

\* clockout, second step: ClockOutWithTime reads the session by its id
ClockOutRead ==
    /\ At("found")
    /\ LET found == GetSessionByID(sessions, FullKey(fg[1].s.id)) IN
       IF found = {}
       THEN /\ last' = Result("clockout", "NotFound")
            /\ fg' = <<[pc |-> "exit", s |-> <<>>]>>
       ELSE /\ \E s \in found : fg' = <<[pc |-> "update", s |-> s]>>
            /\ UNCHANGED last
    /\ UNCHANGED <<sessions, files, clock, nextId, bg>>

\* clockout, last step: ClockOutWithTime writes the session back and the
\* command prints "Clocked out"
ClockOutWrite ==
    /\ At("update")
    /\ \E timeStr \in {NoTime} \cup TimeStrs :
           sessions' = UpdateSession(sessions,
                           ClockOutWithTime(Now, fg[1].s, GetBreakMinutesForDay(fg[1].s.start),
                                            "", timeStr))
    /\ last' = Result("clockout", "")
    /\ fg' = <<[pc |-> "exit", s |-> fg[1].s]>>
    /\ UNCHANGED <<files, clock, nextId, bg>>

Tick ==
    /\ clock < MaxClock
    /\ clock' = clock + 1
    /\ last' = Result("tick", "")
    /\ UNCHANGED <<sessions, files, nextId, fg, bg>>

---------------------------------------------------------------------------
(* One process: the root command launches the background archive task,     *)
(* runs the command and closes the database.                               *)

Quiet == fg = <<>> /\ bg = <<>>

BgAt(pc) == bg # <<>> /\ bg[1].pc = pc

\* PersistentPreRunE: go func() { archiver.AutoArchivePastMonths() }()
Launch ==
    /\ Quiet
    /\ fg' = <<[pc |-> "cmd", s |-> <<>>]>>
    /\ bg' = <<[pc |-> "start", m |-> 0, cur |-> 0]>>
    /\ UNCHANGED <<sessions, files, clock, nextId, last>>

\* AutoArchivePastMonths up to its loop
AutoStart ==
    /\ BgAt("start")
    /\ LET oldestDate == GetOldestSessionDate(sessions) IN
       bg' = IF oldestDate = <<>>
             THEN <<[pc |-> "done", m |-> 0, cur |-> 0]>>
             ELSE <<[pc |-> "walk", m |-> MonthOf(oldestDate[1]), cur |-> MonthOf(Now)]>>
    /\ UNCHANGED <<sessions, files, clock, nextId, last, fg>>

\* one turn of the loop of AutoArchivePastMonths
AutoMonth ==
    /\ BgAt("walk")
    /\ LET m == bg[1].m
           r == ArchiveMonth(sessions, files, Now, m, TRUE, "ok")
       IN  IF ~(m < bg[1].cur)
           THEN /\ bg' = <<[bg[1] EXCEPT !.pc = "done"]>>
                /\ UNCHANGED <<sessions, files>>
           ELSE IF files[m] # <<>>
           THEN /\ bg' = <<[bg[1] EXCEPT !.m = m + 1]>>
                /\ UNCHANGED <<sessions, files>>
           ELSE /\ sessions' = r.db
                /\ files' = r.fs
                /\ bg' = IF r.err \in {"", "EmptyMonth"}
                         THEN <<[bg[1] EXCEPT !.m = m + 1]>>
                         ELSE <<[bg[1] EXCEPT !.pc = "done"]>>
    /\ UNCHANGED <<clock, nextId, last, fg>>

\* the command has returned: the process ends, and the background task with it
Exit ==
    /\ At("exit")
    /\ fg' = <<>>
    /\ bg' = <<>>
    /\ UNCHANGED <<sessions, files, clock, nextId, last>>

\* what earlier runs of the program did
EarlierClockIn == Quiet /\ ClockInCmd

EarlierClockOut == Quiet /\ ClockOutPlain

EarlierTick == Quiet /\ Tick

\* the clock of a run that goes on into the month after the last month that
\* can be archived
LastClock == ToUTC(MonthEnd(MaxMonth + 1))

TickOn ==
    /\ clock < LastClock
    /\ clock' = clock + 1
    /\ last' = Result("tick", "")
    /\ UNCHANGED <<sessions, files, nextId, fg, bg>>

Init ==
    /\ sessions = {}
    /\ files = [m \in Months |-> <<>>]
    /\ clock = ToUTC(MonthStart(1))
    /\ nextId = 1
    /\ last = Result("init", "")
    /\ fg = <<>>
    /\ bg = <<>>

Next ==
    \/ ClockInCmd
    \/ ClockOutCmd
    \/ EditCmd
    \/ DeleteCmd
    \/ Tick

Spec == Init /\ [][Next]_vars

NextArchive ==
    \/ ClockInCmd
    \/ ClockOutPlain
    \/ DeleteCmd
    \/ ArchiveMonthCmd
    \/ ArchiveAutoCmd
    \/ Tick

SpecArchive == Init /\ [][NextArchive]_vars

NextFault ==
    \/ ClockInCmd
    \/ ClockOutPlain
    \/ ArchiveMonthAnyIO
    \/ ArchiveAutoAnyIO
    \/ Tick

SpecFault == Init /\ [][NextFault]_vars

\* clockin waits at its prompt while other runs of the program go on
NextPrompt ==
    \/ ClockInAsk
    \/ ClockInAnswer
    \/ ClockInCmd
    \/ ClockOutPlain
    \/ Tick

SpecPrompt == Init /\ [][NextPrompt]_vars

\* clockout, step by step, beside the background task of its process
NextRace ==
    \/ EarlierClockIn
    \/ EarlierClockOut
    \/ EarlierTick
    \/ Launch
    \/ ClockOutFind
    \/ ClockOutRead
    \/ ClockOutWrite
    \/ AutoStart
    \/ AutoMonth
    \/ Exit

SpecRace == Init /\ [][NextRace]_vars

\* archive auto over three past months, on a file system that may fail
NextWalk ==
    \/ ClockInCmd
    \/ ClockOutPlain
    \/ ArchiveAutoAnyIO
    \/ TickOn

SpecWalk == Init /\ [][NextWalk]_vars

\* the session commands and the views, the clock running on to a Sunday
NextView ==
    \/ ClockInCmd
    \/ ClockOutCmd
    \/ DeleteCmd
    \/ StatusCmd
    \/ WeekCmd
    \/ TickOn

SpecView == Init /\ [][NextView]_vars

\* the session commands at one instant, with an edit that can also write a note
EditNotes == {"", "fix"}

EditNoteCmd == Edit(EditNotes \cup {"-"}, BreakArgs \cup {0 - 1}) /\ UNCHANGED <<fg, bg>>

NextEdit ==
    \/ ClockInCmd
    \/ ClockOutPlain
    \/ EditNoteCmd
    \/ DeleteCmd

SpecEdit == Init /\ [][NextEdit]_vars

\* the commands given a time override that does not parse
BadTimes == {<<TicksPerDay>>}

ClockInBadTime == ClockInAt(Notes, BadTimes) /\ UNCHANGED <<fg, bg>>

ClockOutBadTime == ClockOutAt(BreakArgs \cup {0 - 1}, BadTimes) /\ UNCHANGED <<fg, bg>>

EditBadTime ==
    /\ \/ EditAt(Notes \cup {"-"}, BreakArgs \cup {0 - 1}, BadTimes, {NoTime} \cup TimeStrs)
       \/ EditAt(Notes \cup {"-"}, BreakArgs \cup {0 - 1}, {NoTime} \cup TimeStrs, BadTimes)
    /\ UNCHANGED <<fg, bg>>

NextTime ==
    \/ ClockInBadTime
    \/ ClockOutBadTime
    \/ EditBadTime
    \/ Tick

SpecTime == Init /\ [][NextTime]_vars

\* GetWeekSummary: the week's progress and the work days left
WeekSummary ==
    /\ last' = ViewResult("summary",
                   [week           |-> GetWeeklyProgress(sessions, Now),
                    remaining_days |-> RemainingWorkDaysInWeek(Now)])
    /\ UNCHANGED <<sessions, files, clock, nextId, fg, bg>>

\* a process started at any tick of the seven days from the first of month 1
InitWeek ==
    /\ sessions = {}
    /\ files = [m \in Months |-> <<>>]
    /\ clock \in ToUTC(MonthStart(1))..(ToUTC(MonthStart(1)) + 7 * TicksPerDay - 1)
    /\ nextId = 1
    /\ last = Result("init", "")
    /\ fg = <<>>
    /\ bg = <<>>

NextWeek ==
    \/ ClockInCmd
    \/ ClockOutPlain
    \/ WeekSummary

SpecWeek == InitWeek /\ [][NextWeek]_vars

\* a clock-in of an earlier run, without override
EarlierPlainClockIn == Quiet /\ ClockInAt(Notes, {NoTime}) /\ UNCHANGED <<fg, bg>>

\* one turn of the loop of AutoArchivePastMonths, up to the os.WriteFile of
\* ArchiveMonth
AutoWrite ==
    /\ BgAt("walk")
    /\ LET m == bg[1].m
           r == ArchiveMonth(sessions, files, Now, m, FALSE, "ok")
       IN  IF ~(m < bg[1].cur)
           THEN /\ bg' = <<[bg[1] EXCEPT !.pc = "done"]>>
                /\ UNCHANGED files
           ELSE IF files[m] # <<>>
           THEN /\ bg' = <<[bg[1] EXCEPT !.m = m + 1]>>
                /\ UNCHANGED files
           ELSE /\ files' = r.fs
                /\ bg' = IF r.err = "" THEN <<[bg[1] EXCEPT !.pc = "clean"]>>
                         ELSE IF r.err = "EmptyMonth" THEN <<[bg[1] EXCEPT !.m = m + 1]>>
                         ELSE <<[bg[1] EXCEPT !.pc = "done"]>>
    /\ UNCHANGED <<sessions, clock, nextId, last, fg>>

\* the cleanMonth of ArchiveMonth, and the loop goes on to the next month
AutoClean ==
    /\ BgAt("clean")
    /\ sessions' = cleanMonth(sessions, bg[1].m)
    /\ bg' = <<[bg[1] EXCEPT !.pc = "walk", !.m = bg[1].m + 1]>>
    /\ UNCHANGED <<files, clock, nextId, last, fg>>

NextCut ==
    \/ EarlierPlainClockIn
    \/ EarlierClockOut
    \/ EarlierTick
    \/ Launch
    \/ ClockOutFind
    \/ ClockOutRead
    \/ ClockOutWrite
    \/ AutoStart
    \/ AutoWrite
    \/ AutoClean
    \/ Exit

\* the program is run again and again and each command returns; a background
\* task that is given the chance time after time gets to take its step
SpecCut ==
    /\ Init
    /\ [][NextCut]_vars
    /\ WF_vars(Launch)
    /\ WF_vars(ClockOutFind) /\ WF_vars(ClockOutRead) /\ WF_vars(ClockOutWrite)
    /\ WF_vars(Exit)
    /\ SF_vars(AutoStart) /\ SF_vars(AutoWrite) /\ SF_vars(AutoClean)

---------------------------------------------------------------------------
(* The session lifecycle *)

\* C1: after any sequence of clockin (with or without -t), clockout, edit
\* and delete commands on an initially empty ledger, at most one session of
\* the ledger has no end_time.
C1_AtMostOneActive == Cardinality(ActiveRows(sessions)) <= 1

\* a forced close has ended one session and the new one is the active one
C1_Witness ==
    /\ last.op = "clockin_forced"
    /\ Cardinality(sessions) = 2
    /\ Cardinality(ActiveRows(sessions)) = 1

\* a clockin step taken while a session is active
ClockInWhileActive ==
    /\ ActiveRows(sessions) # {}
    /\ last'.op \in {"clockin", "clockin_forced"}

\* the step closed every active session and inserted the only active one
ForcedClose ==
    /\ last' = Result("clockin_forced", "")
    /\ \A r \in ActiveRows(sessions) : \E q \in sessions' : q.id = r.id /\ q.end # <<>>
    /\ ActiveRows(sessions') = {q \in sessions' : q.id = nextId}
    /\ Cardinality(ActiveRows(sessions')) = 1
    /\ Cardinality(sessions') = Cardinality(sessions) + 1

\* C2, as the code has it: clockin while a session is active (started today
\* or on an earlier day) inserts no session and fails, with AlreadyActive
\* when no end time is supplied and with InvalidTimeFormat when the end time
\* supplied for the close does not parse, unless the caller closes the active
\* session with a supplied end time; after such a forced close the newly
\* inserted session is the only active one.
C2_RefusedOrForcedClose ==
    [][ClockInWhileActive =>
          \/ /\ last'.op = "clockin"
             /\ last'.err \in {"AlreadyActive", "InvalidTimeFormat"}
             /\ sessions' = sessions
          \/ ForcedClose]_vars

\* C2 as stated: every refusal is AlreadyActive
C2_AsStated ==
    [][ClockInWhileActive =>
          \/ /\ last' = Result("clockin", "AlreadyActive")
             /\ sessions' = sessions
          \/ ForcedClose]_vars

\* clockin was refused while a session started on an earlier day is active
C2_Witness ==
    /\ last = Result("clockin", "AlreadyActive")
    /\ \E r \in ActiveRows(sessions) : DayOf(ToLocal(r.start)) < DayOf(Now)

---------------------------------------------------------------------------
(* Archival *)

\* the rows of the sessions that start in month m
StartsIn(db, m) == {r \in db : MonthOf(ToLocal(r.start)) = m}

PastMonths == {m \in Months : m < MonthOf(Now)}

\* C4: archive month --clean deletes the month's rows only when the record
\* has been written in full; when os.MkdirAll or os.WriteFile fails it
\* returns an error and the ledger is unchanged.
C4_DeleteOnlyAfterWrite ==
    [][last'.op = "archive_clean" =>
          /\ last'.err # "" => sessions' = sessions
          /\ sessions' # sessions =>
                \E m \in Months :
                    /\ files'[m] = <<buildSummary(m, GetSessionsInRange(sessions, MonthStart(m), MonthEnd(m)), Now)>>
                    /\ sessions' = cleanMonth(sessions, m)]_vars

\* a write has failed and the ledger still holds the sessions of the month
C4_Witness ==
    /\ last = Result("archive_clean", "StorageFailure")
    /\ \E m \in Months : GetSessionsInRange(sessions, MonthStart(m), MonthEnd(m)) # {}

\* C5: archiveMonth for a month in which no session of the ledger starts
\* returns EmptyMonth, writes no record and deletes no session, with and
\* without deleteAfter.
C5_EmptyMonth ==
    \A m \in Months, clean \in BOOLEAN :
        StartsIn(sessions, m) = {} =>
            LET r == ArchiveMonth(sessions, files, Now, m, clean, "ok")
            IN  r.err = "EmptyMonth" /\ r.fs = files /\ r.db = sessions

\* C6: an archive auto run right after another returns an empty list and
\* changes nothing, and after a run the ledger holds no session for any
\* month the run archived.
C6_AutoTwice ==
    [][(last'.op = "auto" /\ last'.err = "") =>
          /\ \A i \in DOMAIN last'.archived :
                 GetSessionsInRange(sessions', MonthStart(last'.archived[i]),
                                    MonthEnd(last'.archived[i])) = {}
          /\ (last.op = "auto" /\ last.err = "") =>
                 last'.archived = <<>> /\ sessions' = sessions /\ files' = files]_vars

\* a run has archived a month and a second run has returned the empty list
C6_Witness ==
    /\ last = AutoResult("", <<>>)
    /\ \E m \in PastMonths : files[m] # <<>> /\ files[m][1].rows # {}
    /\ \A m \in PastMonths : GetSessionsInRange(sessions, MonthStart(m), MonthEnd(m)) = {}

\* C7: archive auto leaves every session that starts in the month of now or
\* later in the ledger with all fields unchanged, and writes no record for
\* the month of now or a later one.
C7_CurrentMonthUntouched ==
    [][last'.op = "auto" =>
          /\ \A r \in sessions : MonthOf(ToLocal(r.start)) >= MonthOf(Now) => r \in sessions'
          /\ \A m \in Months : m >= MonthOf(Now) => files'[m] = files[m]]_vars

\* a run has archived a past month while a session of this month is in the ledger
C7_Witness ==
    /\ last.op = "auto"
    /\ Len(last.archived) >= 1
    /\ StartsIn(sessions, MonthOf(Now)) # {}

\* C9: once a month has a record, archive auto neither rewrites that record
\* nor deletes a row of the ledger that starts in that month.
C9_RecordedMonthSkipped ==
    [][last'.op = "auto" =>
          \A m \in Months : files[m] # <<>> =>
              /\ files'[m] = files[m]
              /\ \A r \in StartsIn(sessions, m) : r \in sessions']_vars

---------------------------------------------------------------------------
(* Commands that overlap *)

\* C3: clockOut called with the id of a session that already has an end_time
\* fails and leaves that session's end_time and break_minutes unchanged.
\* Here the call is the one clockin makes after its prompt, with the id of
\* the session it found active before the prompt.
C3_ClosedSessionNotClockedOut ==
    [][\A r \in sessions :
          (At("prompt") /\ fg' = <<>> /\ r.id = fg[1].s.id /\ r.end # <<>>)
          => /\ last'.op # "clockin_forced"
             /\ \E q \in sessions' : q.id = r.id /\ q.end = r.end /\ q.brk = r.brk]_vars

---------------------------------------------------------------------------
(* The foreground command and the background task *)

\* C8: the background task never deletes the session a clockout has read
\* and is about to update: when clockout reports success, the session it
\* read is in the ledger.
C8_ClockOutOfDeletedSession ==
    [][(At("update") /\ fg'[1].pc = "exit" /\ last'.err = "")
          => \E r \in sessions : r.id = fg[1].s.id]_vars

---------------------------------------------------------------------------
(* The walk of archive auto *)

\* the sessions of db that the fetch of month m returns
Fetched(db, m) == GetSessionsInRange(db, MonthStart(m), MonthEnd(m))

\* the months before the month of now, from the month of the oldest session on
Walked ==
    IF sessions = {} THEN {}
    ELSE {m \in PastMonths : m >= MonthOf(GetOldestSessionDate(sessions)[1])}

\* the months in the list a run of archive auto returned
Listed(r) == {r.archived[i] : i \in DOMAIN r.archived}

\* month m was passed by the walk: skipped for its file, archived in full, or
\* skipped silently as empty
Passed(m) ==
    \/ files[m] # <<>> /\ files'[m] = files[m]
    \/ /\ m \in Listed(last')
       /\ files[m] = <<>> /\ files'[m] # <<>> /\ files'[m][1].whole
       /\ Fetched(sessions', m) = {}
    \/ /\ m \notin Listed(last')
       /\ files[m] = <<>> /\ files'[m] = <<>>
       /\ Fetched(sessions', m) = {}

\* the walk stopped at month m: nothing whole was written for it, its sessions
\* are in the ledger, and no later month was touched
StoppedAt(m) ==
    /\ files[m] = <<>>
    /\ files'[m] = <<>> \/ ~files'[m][1].whole
    /\ Fetched(sessions', m) # {}
    /\ \A k \in Listed(last') : k < m
    /\ \A k \in Walked : k < m => Passed(k)
    /\ \A k \in Months : k > m => files'[k] = files[k]

\* C11: in archive auto a month whose ArchiveMonth fails with EmptyMonth is
\* skipped silently and the walk goes on with the next month; any other
\* failure stops the walk at that month and returns the months archived so
\* far with the error, and those months keep their records.
C11_EmptySkippedOthersStop ==
    [][last'.op = "auto" =>
          /\ Listed(last') \subseteq Walked
          /\ \A m \in Listed(last') : files'[m] # <<>> /\ files'[m][1].whole
          /\ last'.err = "" => \A m \in Walked : Passed(m)
          /\ last'.err # "" => \E m \in Walked : StoppedAt(m)]_vars

\* a run has archived a month, skipped an empty one and archived a later one
C11_Witness ==
    /\ last.op = "auto" /\ last.err = ""
    /\ \E a, b, c \in Months :
          /\ a < b /\ b < c
          /\ last.archived = <<a, c>>
          /\ files[b] = <<>>

---------------------------------------------------------------------------
(* What the records hold *)

\* the line of row r in the session table of a record; a row without end has none
Lines(r) ==
    IF r.end = <<>> THEN {} ELSE {SessionRecord(populateSessionTimes(r))}

\* C12: every session an archive with --clean or archive auto removes from
\* the ledger is listed in the session table of a record; a session without
\* end_time is never deleted without being recorded.
C12_DeletedIsRecorded ==
    [][last'.op \in {"archive_clean", "auto"} =>
          \A r \in sessions \ sessions' :
              \E m \in Months, l \in Lines(r) :
                  files'[m] # <<>> /\ l \in files'[m][1].rows]_vars

\* C13: a session once listed in the record of a month is listed there after
\* every later command: archiving a month again never drops a session from
\* its record.
C13_RecordKeepsSessions ==
    [][\A m \in Months :
          files[m] # <<>> =>
              /\ files'[m] # <<>>
              /\ files[m][1].rows \subseteq files'[m][1].rows]_vars

\* C14: archive month --clean records and deletes the sessions that start in
\* the month only: every session that starts in another month stays in the
\* ledger unchanged and is not listed in the record of the month.
C14_OnlySessionsStartingInMonth ==
    [][(last'.op = "archive_clean" /\ last'.err = "") =>
          \E m \in Months :
              /\ files'[m] # <<>>
              /\ \A k \in Months \ {m} : files'[k] = files[k]
              /\ \A r \in sessions \ StartsIn(sessions, m) :
                     /\ r \in sessions'
                     /\ Lines(r) \cap files'[m][1].rows = {}]_vars

---------------------------------------------------------------------------
(* The progress views *)

\* the closed sessions of the ledger that start on one of the days in D
ClosedStartingOn(D) ==
    {populateSessionTimes(r) : r \in {x \in sessions : x.end # <<>> /\ DayOf(ToLocal(x.start)) \in D}}

\* no two sessions of the ledger share more than an instant
NoOverlap ==
    \A r, q \in sessions :
        (r # q /\ r.start <= q.start) => (r.end # <<>> /\ r.end[1] <= q.start)

\* the seven days of the week a view is about
WeekDays(v) == DayOf(v.weekStart)..(DayOf(v.weekStart) + 6)

\* C15: for clock-in/clock-out pairs that do not overlap, week reports as
\* TotalHours the sum of (end - start) - break/60 over exactly the closed
\* sessions that start on a day of the Monday-to-Sunday week; a session that
\* starts on Sunday and ends on Monday counts for its start week only.
C15_WeekTotalByStartDate ==
    (last.op = "week" /\ NoOverlap) =>
        /\ Weekday(last.view[1].weekStart) = 1
        /\ last.view[1].total = SumMinutes(ClosedStartingOn(WeekDays(last.view[1])))

\* C16: week reports as DaysWorkedCount the number of days of the week whose
\* closed sessions have a nonzero total: a day whose closed sessions sum to
\* zero and a day with only an active session are not counted.
C16_DaysWorkedNonzero ==
    last.op = "week" =>
        last.view[1].count =
            Cardinality({d \in WeekDays(last.view[1]) : SumMinutes(ClosedStartingOn({d})) # 0})

\* the closed sessions of the ledger that overlap the local day of now
ClosedToday ==
    {populateSessionTimes(r) :
        r \in {x \in sessions : /\ x.end # <<>>
                                /\ ToLocal(x.start) <= DayEnd(Now)
                                /\ ToLocal(x.end[1]) >= DayStart(Now)}}

\* C17: status totals the closed sessions of the local day of now only; an
\* active session is surfaced as the current session and adds nothing to the
\* total, however long it has been open.
C17_DayTotalClosedOnly ==
    last.op = "status" =>
        /\ last.view[1].total = SumMinutes(ClosedToday)
        /\ last.view[1].current = {r.id : r \in ActiveRows(sessions)}

\* status has run with a closed session of today in the total and a session
\* open since an earlier day as the current one
C17_Witness ==
    /\ last.op = "status"
    /\ last.view[1].total > 0
    /\ \E r \in ActiveRows(sessions) :
          /\ last.view[1].current = {r.id}
          /\ DayOf(ToLocal(r.start)) < DayOf(Now)

---------------------------------------------------------------------------
(* Time overrides *)

\* where an override of time of day t belongs: on the day of now when that is
\* not later than now, on the day before otherwise
PlacedStart(t) ==
    IF DayStart(Now) + t <= Now THEN DayStart(Now) + t
    ELSE DayStart(Now) + t - TicksPerDay

\* the session of the ledger that the clock-in of this step inserted
Inserted == {populateSessionTimes(q) : q \in {x \in sessions' : x.id = nextId}}

InsertedEarlierToday == {s \in Inserted : TodOf(s.start) < TodOf(Now)}

PlacedEnd(start, t) ==
    IF t < TodOf(start) THEN DayStart(start) + TicksPerDay + t
    ELSE DayStart(start) + t

\* the sessions this step closed, as read from the ledger afterwards
Closed ==
    {populateSessionTimes(q) :
        q \in {x \in sessions' : x.end # <<>> /\ \E r \in ActiveRows(sessions) : r.id = x.id}}

\* C20: clockout with an end override puts the override's time of day on the
\* session's start date and rolls it forward 24 hours exactly when it
\* precedes the start's time of day; the stored end_time is never before
\* start_time and less than 24 hours after it.
C20_EndOverrideRollsForward ==
    [][/\ \A a \in GetActiveSession(sessions), t \in 0..(TicksPerDay - 1) :
              LET s == populateSessionTimes(RowOf(ClockOutWithTime(Now, a, 0, "", <<t>>)))
              IN  /\ s.end = <<PlacedEnd(a.start, t)>>
                  /\ s.start <= s.end[1] /\ s.end[1] < s.start + TicksPerDay
       /\ (last'.op \in {"clockout", "clockin_forced"} /\ last'.err = "") =>
              \A s \in Closed :
                  \/ s.end = <<Now>>
                  \/ /\ s.end[1] = PlacedEnd(s.start, TodOf(s.end[1]))
                     /\ s.start <= s.end[1] /\ s.end[1] < s.start + TicksPerDay]_vars

\* a clock-out has ended a session on the day after its start, at a time of
\* day before that of the start
C20_Witness ==
    /\ last.op = "clockout"
    /\ \E r \in sessions :
          /\ r.end # <<>>
          /\ DayOf(ToLocal(r.end[1])) = DayOf(ToLocal(r.start)) + 1
          /\ TodOf(ToLocal(r.end[1])) < TodOf(ToLocal(r.start))
          /\ ToLocal(r.end[1]) > Now

---------------------------------------------------------------------------
(* edit and delete *)

\* C21: edit, with any combination of break, note, start time and end time,
\* leaves an active session without end_time and a closed one with an
\* end_time: the ledger is Idle or Active as it was before.
C21_EditKeepsLifecycleState ==
    [][last'.op = "edit" =>
          /\ \A r \in sessions :
                 \E q \in sessions' : q.id = r.id /\ (q.end = <<>>) = (r.end = <<>>)
          /\ (ActiveRows(sessions') = {}) = (ActiveRows(sessions) = {})]_vars

\* the rows of db other than the row of id
Others(db, id) == {r \in db : r.id # id}

\* C22: edit changes only the supplied fields of the one session the
\* identifier resolves to: break, note, start and end that were not supplied
\* keep their values, and every other session of the ledger is unchanged.
C22_EditOnlySuppliedFields ==
    /\ [](/\ \A key \in Keys, brk \in BreakArgs \cup {0 - 1}, note \in EditNotes \cup {"-"},
             timeStr \in {NoTime} \cup TimeStrs, endTimeStr \in {NoTime} \cup TimeStrs :
              \A s \in GetSessionByID(sessions, key) :
                  LET e  == EditSessionSelective(s, brk, brk >= 0, note, note # "-",
                                                 timeStr, endTimeStr)
                      db == UpdateSession(sessions, e)
                  IN  /\ Others(db, s.id) = Others(sessions, s.id)
                      /\ \E r \in GetSessionByID(db, FullKey(s.id)) :
                             /\ {q \in db : q.id = s.id} = {RowOf(r)}
                             /\ brk < 0 => r.brk = s.brk
                             /\ note = "-" => r.note = s.note
                             /\ timeStr = NoTime => r.start = s.start
                             /\ endTimeStr = NoTime => r.end = s.end
       /\ \A brk \in BreakArgs, note \in EditNotes, timeStr \in {NoTime} \cup TimeStrs :
              \A r \in sessions :
                  LET s == populateSessionTimes(r)
                      e == EditSession(s, brk, note, timeStr)
                  IN  /\ e.end = s.end
                      /\ timeStr = NoTime => e.start = s.start)
    /\ [][last'.op = "edit" =>
              /\ {r.id : r \in sessions'} = {r.id : r \in sessions}
              /\ \E id \in Ids : Others(sessions', id) = Others(sessions, id)]_vars

\* an edit has succeeded on a ledger of two sessions, one of which carries a
\* note that only edit writes and a break that edit did not write
C22_Witness ==
    /\ last.op = "edit" /\ last.err = ""
    /\ \E r, q \in sessions :
           /\ r.id # q.id
           /\ r.note = "fix" /\ r.brk # 15 /\ r.end # <<>>
           /\ q.note = ""

\* C23: getByID with a complete identifier matches exactly: for a complete
\* identifier that is not stored it finds nothing, and it never returns a
\* session with a different identifier, even one that shares the first 8
\* characters; only a short form is resolved by prefix.
C23_FullIdMatchesExactly ==
    \A id \in Ids :
        \A s \in GetSessionByID(sessions, FullKey(id)) : s.id = id

\* C24: delete takes a short identifier as edit does: from every ledger,
\* delete with the 8-character prefix of a stored session removes the
\* session that the prefix resolves to.
C24_DeleteByPrefix ==
    \A r \in sessions :
        LET key == ShortKey(IdPrefix(r.id)) IN
        \A s \in GetSessionByID(sessions, key) :
            s.id \notin {q.id : q \in DeleteSession(sessions, key)}

\* C25: update of a session whose id is not in the ledger fails with NotFound
\* and leaves the ledger unchanged, also when the session was deleted between
\* the caller's getByID and its update: a clockout that writes back a session
\* that is no longer stored reports NotFound and changes no row.
C25_UpdateOfMissingFails ==
    [][(At("update") /\ fg'[1].pc = "exit" /\ ~(\E r \in sessions : r.id = fg[1].s.id))
          => (last'.err = "NotFound" /\ sessions' = sessions)]_vars

---------------------------------------------------------------------------
(* Range queries *)

\* the local instants a caller can pass as a bound of a range
Instants == 0..ToLocal(LastClock)

\* the sessions of the ledger as they are read
Stored == {populateSessionTimes(r) : r \in sessions}

\* session s, open-ended if active, meets the closed interval [from, to]
Intersects(s, from, to) == s.start <= to /\ (s.end = <<>> \/ s.end[1] >= from)

\* C26 (amended): getInRange(start, end) returns exactly the sessions whose
\* interval intersects the whole local days from 00:00:00 of the day of start
\* to 23:59:59 of the day of end, in ascending order of start time; an active
\* session is open-ended and is returned for every range that ends at or
\* after its start.
C26_RangeOfWholeDays ==
    \A start, end \in Instants :
        start <= end =>
            /\ GetSessionsInRange(sessions, start, end)
                   = {s \in Stored : Intersects(s, DayStart(start), DayEnd(end))}
            /\ GetSessionsInRangeRows(sessions, start, end) # {}
            /\ \A q \in GetSessionsInRangeRows(sessions, start, end) :
                   /\ {q[i] : i \in DOMAIN q} = GetSessionsInRange(sessions, start, end)
                   /\ \A i, j \in DOMAIN q : i < j => q[i].start <= q[j].start
            /\ \A s \in Stored :
                   (s.end = <<>> /\ end >= s.start)
                       => s \in GetSessionsInRange(sessions, start, end)

\* C26 as stated: exactly the sessions whose interval intersects [start, end]
C26_AsStated ==
    \A start, end \in Instants :
        start <= end =>
            GetSessionsInRange(sessions, start, end)
                = {s \in Stored : Intersects(s, start, end)}

\* status has listed today's sessions: the query for [now, now] returns, in
\* order, a session that ended before now and the active one that started
\* on the same day
C26_Witness ==
    /\ last.op = "status"
    /\ \E q \in GetSessionsInRangeRows(sessions, Now, Now) :
           /\ Len(q) = 2
           /\ q[1].end # <<>> /\ q[1].end[1] < Now
           /\ q[2].end = <<>> /\ q[1].start < q[2].start

---------------------------------------------------------------------------
(* Time overrides that do not parse *)

\* C27: a time override that does not parse ("25:00", "invalid") makes
\* clockin, clockout and edit fail with InvalidTimeFormat and abort: nothing
\* is inserted and nothing is updated.
C27_BadTimeAborts ==
    [][last'.op \in {"clockin", "clockin_forced", "clockout", "edit"} =>
          /\ last'.err # ""
          /\ sessions' = sessions]_vars

---------------------------------------------------------------------------
(* The date of a session *)

\* every session a query of the ledger can return
ReadFromLedger ==
    UNION {GetSessionByID(sessions, key) : key \in Keys}
        \cup GetActiveSession(sessions)
        \cup UNION {GetSessionsInRange(sessions, t, t) : t \in Instants}

\* C28: date is a projection of start_time: after any sequence of clockin
\* (also with an override that falls on the previous day), edit of the start
\* time and clockout, every session read from the ledger has as date the
\* calendar day of its start_time in the configured timezone.
C28_DateIsDayOfStart ==
    /\ \A r \in sessions : \E s \in ReadFromLedger : s.id = r.id
    /\ \A s \in ReadFromLedger :
           DayOf(s.date) = DayOf(s.start) /\ TodOf(s.date) = 0

\* after an edit the ledger holds a closed session whose date column, the
\* UTC day of the start, is not the local day of the start
C28_Witness ==
    /\ last.op = "edit" /\ last.err = ""
    /\ \E r \in sessions :
           /\ r.end # <<>>
           /\ r.date # DayOf(ToLocal(r.start))
           /\ \E s \in ReadFromLedger : s.id = r.id

---------------------------------------------------------------------------
(* Work days left in the week *)

\* C29: remainingWorkDays is 0 on every Saturday and Sunday and is 5, 4, 3,
\* 2, 1 on Monday, Tuesday, Wednesday, Thursday, Friday: it counts the day
\* itself and decreases by one each work day.
C29_RemainingWorkDays ==
    LET want == [d \in 0..6 |-> CASE d = 0 -> 0 [] d = 1 -> 5 [] d = 2 -> 4 [] d = 3 -> 3
                                  [] d = 4 -> 2 [] d = 5 -> 1 [] d = 6 -> 0]
    IN  /\ RemainingWorkDaysInWeek(Now) = want[Weekday(Now)]
        /\ last.op = "summary" => last.view[1].remaining_days = want[Weekday(Now)]

\* the week summary was asked for on a Sunday and reports no work day left
C29_Witness ==
    /\ last.op = "summary"
    /\ Weekday(Now) = 0
    /\ last.view[1].remaining_days = 0

---------------------------------------------------------------------------
(* A run cut off between the record and the delete *)

\* no process runs, month m has its record and the ledger still holds
\* sessions of month m
Stranded(m) ==
    /\ Quiet
    /\ files[m] # <<>>
    /\ Fetched(sessions, m) # {}

\* C30: if the process stops after archiveMonth has written the record of a
\* month and before the rows of the month are deleted, a later run of
\* autoArchivePastMonths eventually deletes the rows of that month.
C30_StrandedRowsEventuallyDeleted ==
    \A m \in Months : Stranded(m) ~> (Fetched(sessions, m) = {})

====
